---- MODULE Spec2Model ----
(***************************************************************************)
(* State-machine model of the esp32-ili9341-slint firmware:                *)
(*   - the touch translators  Xpt2046TouchInput::get_input                 *)
(*     (src/src/touch_input.rs) and Touch::update (src/src/main.rs),       *)
(*   - the frame sink  process_line  (main.rs, slint_renderer.rs),         *)
(*   - the shared SPI buses behind RefCell (main.rs run_event_loop),       *)
(*   - HttpClient::request (src/src/http_client.rs).                       *)
(*                                                                         *)
(* Option<T> is a sequence of length <= 1: <<>> is None, <<v>> is Some(v). *)
(* A point is a pair <<x, y>>.                                             *)
(***************************************************************************)
EXTENDS Integers, Sequences, FiniteSets, TLC

VARIABLES
    last_pos,       \* Xpt2046TouchInput.last_pos : Option<(i32, i32)>
    screen_width,   \* Xpt2046TouchInput.screen_width
    t_last_pos,     \* Touch.last_pos : Option<PhysicalPosition>
    gi_down,        \* history: get_input returned Pressed and no Released since
    tu_down,        \* history: update dispatched Pressed and no Released since
    call,           \* the most recent call: its inputs, the state it found, its outputs
    halted,         \* the process has panicked (unwrap / expect / panic!)
    buffer,         \* DrawBuf.buffer : [Rgb565Pixel; 320], see BufAt
    program,        \* which binary runs: "main" (src/main.rs) | "bin" (src/bin/main.rs)
    pc,             \* where run_event_loop is
    io,             \* "open" while the device of the running operation is inside
                    \* a bus transaction, "idle" otherwise
    bus,            \* per SPI bus, the devices that hold its RefCell borrowed
    bus_rate,       \* per SPI bus, Option of the clock rate (kHz) it was created with
    attempt,        \* init_sd_card's attempt counter
    sd_log,         \* history: the outcome of each open_volume, in order
    net_log,        \* history: the network bring-up steps started, in order
    assoc,          \* network session: "disassociated" | "associating" | "associated"
    lease,          \* network session: "none" | "pending" | "bound"
    sock_open,      \* history: a socket has been opened
    h_pc,           \* where HttpClient::request is: "idle" | "send" | "read" |
                    \* "grace" | "done"
    h_req,          \* the arguments of the request in progress
    h_sent,         \* what has been written to the socket, and whether flushed
    h_script,       \* what the peer will answer: its chunks and how it ends
    h_next,         \* number of reads that have returned a chunk
    h_rx,           \* history: the time each chunk's read returned
    h_out,          \* out : String, as bytes
    h_now,          \* Instant::now(), seconds since the deadline was set
    h_deadline,     \* Option of deadline
    h_end,          \* how and when the read loop ended
    h_sock,         \* the socket: "closed" | "open" | "disconnected"
    h_result,       \* Option of what request returned
    wsc,            \* the WsClient: connected, ws_key, read_cursor, ws_rx, ws_tx,
                    \* frame_buf
    w_absorbed      \* history: a connected poll_recv got something else than a text

\* ------------------------------------------------------------------ bounds

\* Raw touch samples are drawn from (0..MaxRaw) x (0..MaxRaw) and the two
\* points the specification's scenarios use.
MaxRaw == 1
\* process_line is called for rows 0..MaxLine and for column ranges of at most
\* MaxSpan + 1 columns that start at column 0 or MaxSpan columns before the
\* end of the line buffer.
MaxLine == 1
MaxSpan == 2
\* chunks in a response
MaxReads == 2
\* how long the clock is followed while a read is pending
MaxTime == 4
\* largest value the framer leaves in read_cursor
MaxCursor == 1

\* ------------------------------------------------------- program constants

\* window.set_size(PhysicalSize::new(320, 240)); xpt.update(&window, 320, 240)
ScreenW == 320
ScreenH == 240
\* MinimalSoftwareWindow's scale factor, read by window.scale_factor(); the
\* program never changes it from 1.
WindowScaleFactor == 1

\* buffer: [Rgb565Pixel; 320]
LineBufLen == 320
\* create_spi(peripherals.SPI3, .., Rate::from_mhz(4)), in kHz
FastKHz == 4000
\* create_spi(peripherals.SPI2, .., Rate::from_khz(400))
SlowKHz == 400
\* "SD requires 100kHz-400kHz"
SdMinKHz == 100
SdMaxKHz == 400
\* "Display in order to be fast needs like 40MHz"
DisplayNeedsKHz == 40000
\* "XPT 2046 can have around 4MHz - it doesn't work on values that are too big"
TouchNeedsKHz == 4000
\* let max_attempts = 5;
MaxAttempts == 5
\* let end_deadline = Instant::now() + Duration::from_secs(5);
GraceSecs == 5
\* `as u16` keeps the low 16 bits
U16 == 65536

None == <<>>
Some(v) == <<v>>

RawSamples ==
    ((0..MaxRaw) \X (0..MaxRaw)) \cup {<<5, 5>>, <<10, 20>>}

\* Widths an Xpt2046TouchInput may be created with: the panel's two sides.
ScreenWidths == {ScreenW, ScreenH}

NoCall == [op |-> "none"]

progVars == <<program, pc, io, bus, bus_rate, attempt, sd_log, net_log,
              assoc, lease, sock_open>>
wsVars == <<wsc, w_absorbed>>
httpVars == <<h_pc, h_req, h_sent, h_script, h_next, h_rx, h_out, h_now,
              h_deadline, h_end, h_sock, h_result>>

\* ------------------------------------------------------- touch_input.rs

\* let x = self.screen_width - 2 * p.x;  let y = 2 * p.y;
RemapMutHalf(w, p) == <<w - p[1], 2 * p[2]>>
Remap(w, p) == <<w - 2 * p[1], 2 * p[2]>>

\* match self.last_pos.replace((x, y)) { Some(prev) if (prev.0 != x && prev.1 != y)
\*   => Moved, None => Pressed, _ => Moved }
ClassifyMutSkipSame(prev, xy) ==
    IF prev # None /\ prev[1][1] # xy[1] /\ prev[1][2] # xy[2] THEN "Moved"
    ELSE IF prev = None THEN "Pressed"
    ELSE "NoInput"
Classify(prev, xy) ==
    IF prev # None /\ prev[1][1] # xy[1] /\ prev[1][2] # xy[2] THEN "Moved"
    ELSE IF prev = None THEN "Pressed"
    ELSE "Moved"

\* The TouchInputResponse of one poll and the stored point it leaves, given
\* is_touched() and get_touch_point().
GetInputResponse(prev, w, touched, p) ==
    IF touched
    THEN [kind |-> Classify(prev, Remap(w, p)), pos |-> Some(Remap(w, p))]
    ELSE IF prev # None
    THEN [kind |-> "Released", pos |-> prev]
    ELSE [kind |-> "NoInput", pos |-> None]

GetInputStoredMutKeepFirst(prev, w, touched, p) ==
    IF touched THEN (IF prev = None THEN Some(Remap(w, p)) ELSE prev) ELSE None
GetInputStored(prev, w, touched, p) ==
    IF touched THEN Some(Remap(w, p)) ELSE None

DownAfter(down, kind) ==
    IF kind = "Pressed" THEN TRUE
    ELSE IF kind = "Released" THEN FALSE
    ELSE down

\* Xpt2046TouchInput::get_input.  runOk: self.driver.run() succeeded.
get_input(runOk, touched, p) ==
    /\ IF ~runOk
       THEN /\ call' = [op |-> "get_input", ok |-> FALSE, touched |-> FALSE,
                        raw |-> None, prev |-> last_pos, width |-> screen_width,
                        response |-> [kind |-> "Err", pos |-> None],
                        down |-> gi_down]
            /\ UNCHANGED <<last_pos, gi_down>>
       ELSE LET r == GetInputResponse(last_pos, screen_width, touched, p) IN
            /\ call' = [op |-> "get_input", ok |-> TRUE, touched |-> touched,
                        raw |-> IF touched THEN Some(p) ELSE None,
                        prev |-> last_pos, width |-> screen_width,
                        response |-> r, down |-> gi_down]
            /\ last_pos' = GetInputStored(last_pos, screen_width, touched, p)
            /\ gi_down' = DownAfter(gi_down, r.kind)
    /\ UNCHANGED <<screen_width, t_last_pos, tu_down, halted, buffer>>
    /\ UNCHANGED <<progVars, httpVars, wsVars>>

\* ------------------------------------------------------- main.rs  Touch

\* let x_px = screen_w - 2 * p.x;  let y_px = 2 * p.y;  PhysicalPosition::new
PhysicalPos(w, p) == <<w - 2 * p[1], 2 * p[2]>>

\* pos.to_logical(window.scale_factor())
ToLogical(pos, sf) == <<pos[1] \div sf, pos[2] \div sf>>

\* match self.last_pos.replace(pos) { Some(prev) if prev != pos => PointerMoved,
\*   None => PointerPressed, _ => PointerMoved }
UpdateEventMutSkipSame(prev, pos) ==
    IF prev # None /\ prev[1] # pos THEN "Moved"
    ELSE IF prev = None THEN "Pressed"
    ELSE "NoInput"
UpdateEvent(prev, pos) ==
    IF prev # None /\ prev[1] # pos THEN "Moved"
    ELSE IF prev = None THEN "Pressed"
    ELSE "Moved"

\* The window events Touch::update tries to dispatch, in order, each with
\* whether try_dispatch_event succeeded.  ok1, ok2: the outcome of the first
\* and the second try_dispatch_event; `?` returns at the first failure.
UpdateDispatchedMutAlwaysExit(prev, w, touched, p, ok1, ok2) ==
    IF touched
    THEN <<[kind |-> UpdateEvent(prev, PhysicalPos(w, p)),
            pos |-> Some(ToLogical(PhysicalPos(w, p), WindowScaleFactor)),
            delivered |-> ok1]>>
    ELSE IF prev # None
    THEN <<[kind |-> "Released",
            pos |-> Some(ToLogical(prev[1], WindowScaleFactor)),
            delivered |-> ok1],
           [kind |-> "Exited", pos |-> None, delivered |-> ok2]>>
    ELSE <<>>
UpdateDispatched(prev, w, touched, p, ok1, ok2) ==
    IF touched
    THEN <<[kind |-> UpdateEvent(prev, PhysicalPos(w, p)),
            pos |-> Some(ToLogical(PhysicalPos(w, p), WindowScaleFactor)),
            delivered |-> ok1]>>
    ELSE IF prev # None
    THEN <<[kind |-> "Released",
            pos |-> Some(ToLogical(prev[1], WindowScaleFactor)),
            delivered |-> ok1]>>
         \o (IF ok1
             THEN <<[kind |-> "Exited", pos |-> None, delivered |-> ok2]>>
             ELSE <<>>)
    ELSE <<>>

\* self.last_pos.replace(pos) / self.last_pos.take(): both happen before the
\* dispatch, so the stored point changes even when the dispatch fails.
UpdateStoredMutKeep(prev, w, touched, p) ==
    IF touched THEN Some(PhysicalPos(w, p)) ELSE prev
UpdateStored(prev, w, touched, p) ==
    IF touched THEN Some(PhysicalPos(w, p)) ELSE None

AllDelivered(d) == \A i \in 1..Len(d) : d[i].delivered

\* The effect of Touch::update(window, screen_w, _) on Touch and on the
\* window, as called by run_event_loop: xpt.update(&window, 320, 240).unwrap().
\* runOk: self.xpt.run() succeeded (unwrap panics otherwise).
UpdateEffect(runOk, touched, p, ok1, ok2) ==
    IF ~runOk
    THEN /\ call' = [op |-> "update", ok |-> FALSE, touched |-> FALSE,
                     raw |-> None, prev |-> t_last_pos, width |-> ScreenW,
                     dispatched |-> <<>>, result |-> "panic", down |-> tu_down]
         /\ halted' = TRUE
         /\ UNCHANGED <<t_last_pos, tu_down>>
    ELSE LET d == UpdateDispatched(t_last_pos, ScreenW, touched, p, ok1, ok2) IN
         /\ call' = [op |-> "update", ok |-> TRUE, touched |-> touched,
                     raw |-> IF touched THEN Some(p) ELSE None,
                     prev |-> t_last_pos, width |-> ScreenW,
                     dispatched |-> d,
                     result |-> IF AllDelivered(d) THEN "Ok" ELSE "Err",
                     down |-> tu_down]
         /\ t_last_pos' = UpdateStored(t_last_pos, ScreenW, touched, p)
         /\ tu_down' = IF d = <<>> THEN tu_down ELSE DownAfter(tu_down, d[1].kind)
         \* xpt.update(..).unwrap() in run_event_loop
         /\ halted' = ~AllDelivered(d)

update(runOk, touched, p, ok1, ok2) ==
    /\ ~halted
    /\ UpdateEffect(runOk, touched, p, ok1, ok2)
    /\ UNCHANGED <<last_pos, screen_width, gi_down, buffer>>
    /\ UNCHANGED <<progVars, httpVars, wsVars>>

\* ------------------------------------------------------- main.rs  DrawBuf

\* Rgb565Pixel(u16): the darkest and the brightest pixel.
PixelValues == {0, 65535}

\* Range<usize>: start..end, columns start, ..., end - 1.
Ranges ==
    { [start |-> s, end |-> s + n] :
        s \in {0, LineBufLen - MaxSpan}, n \in 0..(MaxSpan + 1) }

RangeLen(r) == IF r.end >= r.start THEN r.end - r.start ELSE 0

\* &mut self.buffer[range.clone()] panics unless start <= end <= 320.
SliceOk(r) == r.start <= r.end /\ r.end <= LineBufLen

\* Ranges a renderer hands out for a window of set_size(320, 240).
FitRanges == { r \in Ranges : SliceOk(r) }

\* What render_fn may write into a slice of n pixels: every pixel of it.
Fills(n) == [1..n -> PixelValues]

\* The line buffer holds Rgb565Pixel(0) in every column at construction; the
\* model keeps the columns that hold another value.  BufAt is buffer[c].
BufAt(buf, c) == IF c \in DOMAIN buf THEN buf[c] ELSE 0

\* render_fn(buf): the producer writes fill[i] at column range.start + i - 1
\* of the buffer.
Rendered(buf, r, fill) ==
    LET val(c) == IF r.start <= c /\ c < r.end
                  THEN fill[c - r.start + 1] ELSE BufAt(buf, c)
        cols == { c \in (DOMAIN buf) \cup (r.start..(r.end - 1)) : val(c) # 0 }
    IN  [c \in cols |-> val(c)]

\* Rgb565::from(RawU16::new(x.0)): the pixel's 16 bits, unchanged.
ToRgb565(px) == px % U16

\* buf.iter().map(..): the pixels of the slice, in column order.
StreamedMutReversed(buf, r) ==
    [i \in 1..RangeLen(r) |-> ToRgb565(BufAt(buf, r.end - i))]
Streamed(buf, r) ==
    [i \in 1..RangeLen(r) |-> ToRgb565(BufAt(buf, r.start + i - 1))]

\* set_pixels(range.start as u16, line as u16, range.end as u16, line as u16, ..):
\* the address window (sx, sy, ex, ey) handed to the display.
AddressWindow(line, r) ==
    [sx |-> r.start % U16, sy |-> line % U16, ex |-> r.end % U16, ey |-> line % U16]

\* The columns and rows an address window (sx, sy, ex, ey) covers: both ends
\* belong to it (the call passes (line, line) for the one row it writes).
WindowCols(w) == w.sx..w.ex
WindowRows(w) == w.sy..w.ey

\* The effect of process_line(line, range, render_fn).  writeOk: set_pixels
\* succeeded (unwrap panics otherwise).
ProcessLineEffect(line, r, fill, writeOk) ==
    IF ~SliceOk(r)
    THEN /\ call' = [op |-> "process_line", line |-> line, range |-> r,
                     produced |-> <<>>, window |-> None, pixels |-> <<>>,
                     result |-> "panic"]
         /\ halted' = TRUE
         /\ UNCHANGED buffer
    ELSE LET buf == Rendered(buffer, r, fill) IN
         /\ buffer' = buf
         /\ call' = [op |-> "process_line", line |-> line, range |-> r,
                     produced |-> fill,
                     window |-> Some(AddressWindow(line, r)),
                     pixels |-> Streamed(buf, r),
                     result |-> IF writeOk THEN "Ok" ELSE "panic"]
         /\ halted' = ~writeOk

process_line(line, r, fill, writeOk) ==
    /\ ~halted
    /\ ProcessLineEffect(line, r, fill, writeOk)
    /\ UNCHANGED <<last_pos, screen_width, t_last_pos, gi_down, tu_down>>
    /\ UNCHANGED <<progVars, httpVars, wsVars>>

\* ------------------------------------------------------- main.rs  buses

\* fast_spi (SPI3) and slow_spi (SPI2), each in a RefCell of its own.
Buses == {"fast", "slow"}
Devices == {"display", "touch", "sd"}

\* DrawBuf::new(&fast_spi_ref_cell, ..), Touch::new(&fast_spi_ref_cell, ..),
\* init_sd_card(&slow_spi_ref_cell, ..)
BusOfMutSdOnFast(dev) == "fast"
BusOf(dev) == IF dev = "sd" THEN "slow" ELSE "fast"

\* Rate::from_mhz(4) for fast_spi, Rate::from_khz(400) for slow_spi
CreatedKHz(b) == IF b = "fast" THEN FastKHz ELSE SlowKHz

\* The rates the comments above create_spi's calls ask for.
RequiredKHz(dev) ==
    IF dev = "sd" THEN SdMinKHz..SdMaxKHz
    ELSE IF dev = "display" THEN {DisplayNeedsKHz}
    ELSE {TouchNeedsKHz}

\* The operations of run_event_loop that talk to a device, and the device.
IoOps == {"DrawBuf_new", "Touch_new", "init_sd_card", "update", "draw"}
DevOf(op) ==
    IF op \in {"DrawBuf_new", "draw"} THEN "display"
    ELSE IF op \in {"Touch_new", "update"} THEN "touch"
    ELSE "sd"

\* The RefCell's holders once the device's transaction has ended (the RefMut
\* is dropped when transaction() returns).
ReleasedMutLeak(holders, dev) == holders
Released(holders, dev) == holders \ {dev}

\* A device of the running operation starts a bus transaction:
\* RefCellDevice::transaction borrows the RefCell mutably, which panics when
\* it is already borrowed.  The bus keeps the rate it was created with.
BusAcquire ==
    /\ ~halted
    /\ pc \in IoOps
    /\ io = "idle"
    /\ LET dev == DevOf(pc)
           b == BusOf(dev)
       IN  IF bus[b] = {}
           THEN /\ bus' = [bus EXCEPT ![b] = {dev}]
                /\ io' = "open"
                /\ UNCHANGED halted
           ELSE /\ halted' = TRUE
                /\ UNCHANGED <<bus, io>>
    /\ UNCHANGED <<program, pc, bus_rate, attempt, sd_log, net_log, assoc, lease, sock_open>>
    /\ UNCHANGED <<last_pos, screen_width, gi_down, t_last_pos, tu_down, call, buffer>>
    /\ UNCHANGED <<httpVars, wsVars>>

\* The transaction ends and the borrow is given back before the driver call
\* goes on.
BusRelease ==
    /\ ~halted
    /\ pc \in IoOps
    /\ io = "open"
    /\ LET dev == DevOf(pc)
           b == BusOf(dev)
       IN  bus' = [bus EXCEPT ![b] = Released(bus[b], dev)]
    /\ io' = "idle"
    /\ UNCHANGED <<program, pc, bus_rate, attempt, sd_log, net_log, assoc, lease, sock_open, halted>>
    /\ UNCHANGED <<last_pos, screen_width, gi_down, t_last_pos, tu_down, call, buffer>>
    /\ UNCHANGED <<httpVars, wsVars>>

\* ------------------------------------------------------- main.rs  run_event_loop

touchVars == <<last_pos, screen_width, gi_down, t_last_pos, tu_down>>

\* A step of run_event_loop that is one call: it ends at `next`, or panics.
Step(from, next, ok, rec) ==
    /\ ~halted
    /\ pc = from
    /\ io = "idle"
    /\ call' = rec
    /\ halted' = ~ok
    /\ pc' = IF ok THEN next ELSE from

\* The two binaries: src/main.rs brings the network up and makes one HTTP
\* exchange before it creates the buses; src/bin/main.rs starts at the buses.
Programs == {"main", "bin"}
EntryOf(prog) == IF prog = "main" THEN "radio_init" ELSE "create_spi"

\* The bring-up history: a step is entered once it starts; the repeated turns
\* of one polling loop are one entry.
Logged(log, step) ==
    IF log # <<>> /\ log[Len(log)] = step THEN log ELSE Append(log, step)

\* connect_wifi's loop leaves only on Ok(true).
AfterIsConnectedMutGiveUp(res) == IF res = "true" THEN "obtain_ip" ELSE "create_spi"
AfterIsConnectedMutNoWait(res) == "obtain_ip"
AfterIsConnected(res) == IF res = "true" THEN "obtain_ip" ELSE "wait_connected"

\* obtain_ip's loop leaves only when the interface is up.
AfterWorkMutReconnect(up) == IF up THEN "http_request" ELSE "connect_wifi"
AfterWork(up) == IF up THEN "http_request" ELSE "obtain_ip"

\* esp_radio::init().expect(..); esp_radio::wifi::new(..).expect(..)
radio_init(ok) ==
    /\ Step("radio_init", "configure_wifi", ok, [op |-> "radio_init", ok |-> ok])
    /\ UNCHANGED <<program, io, bus, bus_rate, attempt, sd_log, net_log, assoc, lease, sock_open>>
    /\ UNCHANGED <<touchVars, buffer, httpVars, wsVars>>

\* configure_wifi: set_power_saving(..).unwrap(); the result of set_config is
\* printed; controller.start().unwrap()
configure_wifi(psOk, cfgOk, startOk) ==
    /\ Step("configure_wifi", "scan_wifi", psOk /\ startOk,
            [op |-> "configure_wifi", power_saving |-> psOk,
             set_config |-> psOk /\ cfgOk, started |-> psOk /\ startOk])
    /\ net_log' = IF psOk THEN net_log \o <<"set_config", "start">> ELSE net_log
    /\ UNCHANGED <<program, io, bus, bus_rate, attempt, sd_log, assoc, lease, sock_open>>
    /\ UNCHANGED <<touchVars, buffer, httpVars, wsVars>>

\* scan_wifi: controller.scan_with_config(scan_config).unwrap()
scan_wifi(ok) ==
    /\ Step("scan_wifi", "connect_wifi", ok, [op |-> "scan_wifi", ok |-> ok])
    /\ net_log' = Logged(net_log, "scan")
    /\ UNCHANGED <<program, io, bus, bus_rate, attempt, sd_log, assoc, lease, sock_open>>
    /\ UNCHANGED <<touchVars, buffer, httpVars, wsVars>>

\* connect_wifi, first half: println!("wifi_connect {:?}", controller.connect());
\* the result is printed and not looked at.
connect_wifi(reqOk) ==
    /\ Step("connect_wifi", "wait_connected", TRUE,
            [op |-> "connect", ok |-> reqOk])
    /\ assoc' = IF reqOk THEN "associating" ELSE "disassociated"
    /\ net_log' = Logged(net_log, "connect")
    /\ UNCHANGED <<program, io, bus, bus_rate, attempt, sd_log, lease, sock_open>>
    /\ UNCHANGED <<touchVars, buffer, httpVars, wsVars>>

\* connect_wifi, the loop: match controller.is_connected() { Ok(true) => break,
\* Ok(false) => {}, Err(err) => panic!(..) }.  res: "true" | "false" | "err".
wait_connected(res) ==
    /\ res = "true" => assoc = "associating"
    /\ Step("wait_connected", AfterIsConnected(res),
            res # "err", [op |-> "is_connected", res |-> res])
    /\ assoc' = IF res = "true" THEN "associated" ELSE assoc
    /\ lease' = IF res = "true" THEN "pending" ELSE lease
    /\ net_log' = Logged(net_log, "is_connected")
    /\ UNCHANGED <<program, io, bus, bus_rate, attempt, sd_log, sock_open>>
    /\ UNCHANGED <<touchVars, buffer, httpVars, wsVars>>

\* obtain_ip: loop { stack.work(); if stack.is_iface_up() { break; } }
obtain_ip(up) ==
    /\ Step("obtain_ip", AfterWork(up), TRUE,
            [op |-> "work", iface_up |-> up])
    /\ lease' = IF up THEN "bound" ELSE lease
    /\ net_log' = Logged(net_log, "work")
    /\ UNCHANGED <<program, io, bus, bus_rate, attempt, sd_log, assoc, sock_open>>
    /\ UNCHANGED <<touchVars, buffer, httpVars, wsVars>>

\* http_request(socket): open(..).unwrap(), write(..).unwrap(), flush().unwrap(),
\* the read loop (panic!("Invalid UTF-8 ..")), disconnect, grace, delay.
http_request(openOk, sendOk, textOk) ==
    /\ Step("http_request", "create_spi", openOk /\ sendOk /\ textOk,
            [op |-> "http_request", opened |-> openOk,
             sent |-> openOk /\ sendOk, text |-> openOk /\ sendOk /\ textOk])
    /\ sock_open' = openOk
    /\ UNCHANGED <<program, io, bus, bus_rate, attempt, sd_log, net_log, assoc, lease>>
    /\ UNCHANGED <<touchVars, buffer, httpVars, wsVars>>

\* let fast_spi = create_spi(SPI3, .., Rate::from_mhz(4));
\* let slow_spi = create_spi(SPI2, .., Rate::from_khz(400));  RefCell::new of each
create_spi ==
    /\ Step("create_spi", "DrawBuf_new", TRUE, [op |-> "create_spi"])
    /\ bus_rate' = [b \in Buses |-> Some(CreatedKHz(b))]
    /\ UNCHANGED <<program, io, bus, attempt, sd_log, net_log, assoc, lease, sock_open>>
    /\ UNCHANGED <<touchVars, buffer, httpVars, wsVars>>

\* DrawBuf::new(&fast_spi_ref_cell, ..): RefCellDevice::new_no_delay(..).unwrap(),
\* Builder::..init(..).unwrap()
DrawBuf_new(ok) ==
    /\ Step("DrawBuf_new", "Touch_new", ok, [op |-> "DrawBuf_new", ok |-> ok])
    /\ UNCHANGED <<program, io, bus, bus_rate, attempt, sd_log, net_log, assoc, lease, sock_open>>
    /\ UNCHANGED <<touchVars, buffer, httpVars, wsVars>>

\* Touch::new(&fast_spi_ref_cell, ..): RefCellDevice::new_no_delay(..).unwrap(),
\* xpt.init(..).unwrap()
Touch_new(ok) ==
    /\ Step("Touch_new", "init_sd_card", ok, [op |-> "Touch_new", ok |-> ok])
    /\ UNCHANGED <<program, io, bus, bus_rate, attempt, sd_log, net_log, assoc, lease, sock_open>>
    /\ UNCHANGED <<touchVars, buffer, httpVars, wsVars>>

\* One turn of init_sd_card's loop: attempt += 1; open_volume; on Ok the
\* root directory, HELLO.TXT and the read are tried (a failure of any is
\* skipped) and the loop ends; on Err it ends once attempt >= max_attempts.
SdLoopEndsMutCeilingOnly(n, mountOk) == n >= MaxAttempts
SdLoopEndsMutOneMore(n, mountOk) == mountOk \/ n > MaxAttempts
SdLoopEnds(n, mountOk) == mountOk \/ n >= MaxAttempts

init_sd_card(mountOk, rootOk, fileOk, readOk) ==
    /\ Step("init_sd_card",
            IF SdLoopEnds(attempt + 1, mountOk) THEN "update" ELSE "init_sd_card",
            TRUE,
            [op |-> "open_volume", attempt |-> attempt + 1, mounted |-> mountOk,
             root |-> mountOk /\ rootOk,
             file |-> mountOk /\ rootOk /\ fileOk,
             read |-> mountOk /\ rootOk /\ fileOk /\ readOk])
    /\ attempt' = attempt + 1
    /\ sd_log' = Append(sd_log, mountOk)
    /\ UNCHANGED <<program, io, bus, bus_rate, net_log, assoc, lease, sock_open>>
    /\ UNCHANGED <<touchVars, buffer, httpVars, wsVars>>

\* loop { update_timers_and_animations(); xpt.update(&window, 320, 240).unwrap();
loop_update(runOk, touched, p, ok1, ok2) ==
    /\ ~halted
    /\ pc = "update"
    /\ io = "idle"
    /\ UpdateEffect(runOk, touched, p, ok1, ok2)
    /\ pc' = "draw"
    /\ UNCHANGED <<program, io, bus, bus_rate, attempt, sd_log, net_log, assoc, lease, sock_open>>
    /\ UNCHANGED <<last_pos, screen_width, gi_down, buffer, httpVars, wsVars>>

\* window.draw_if_needed(|renderer| renderer.render_by_line(&mut drawbuf)):
\* one process_line of the frame, with a range of the 320-pixel window.
loop_process_line(line, r, fill, writeOk) ==
    /\ ~halted
    /\ pc = "draw"
    /\ io = "idle"
    /\ ProcessLineEffect(line, r, fill, writeOk)
    /\ UNCHANGED <<progVars, httpVars, wsVars>>
    /\ UNCHANGED touchVars

\* the frame is done: window.request_redraw(); } and the loop starts over
AfterRedrawMutRemount == "init_sd_card"
AfterRedraw == "update"

loop_redraw ==
    /\ Step("draw", AfterRedraw, TRUE, [op |-> "request_redraw"])
    /\ UNCHANGED <<program, io, bus, bus_rate, attempt, sd_log, net_log, assoc, lease, sock_open>>
    /\ UNCHANGED <<touchVars, buffer, httpVars, wsVars>>

\* ------------------------------------------------------- http_client.rs

\* Method and Method::as_str
Methods == {"Get", "Post"}
as_str(method) == IF method = "Get" THEN "GET" ELSE "POST"

\* Bytes: "A" is an ASCII byte, "L" the lead byte of a two-byte character,
\* "T" a continuation byte.
Bytes == {"A", "L", "T"}
Bodies == {None, Some(<<>>), Some(<<"A">>)}
\* timeout_secs
Timeouts == {1, 2}

\* core::str::from_utf8(&temp[..n]).is_ok()
ValidUtf8MutAcceptAll(bs) == TRUE
RECURSIVE ValidUtf8(_)
ValidUtf8(bs) ==
    IF bs = <<>> THEN TRUE
    ELSE IF Head(bs) = "A" THEN ValidUtf8(Tail(bs))
    ELSE IF Head(bs) = "L"
         THEN Len(bs) >= 2 /\ bs[2] = "T" /\ ValidUtf8(Tail(Tail(bs)))
    ELSE FALSE

\* What one read can put in temp: at least one byte.
Chunks == {<<"A">>, <<"L", "T">>, <<"L">>}

\* The peer: the chunks it sends, then it closes ("eof", a zero-length read),
\* the socket fails ("err"), or it stays silent with the connection open.
RECURSIVE SeqsUpTo(_, _)
SeqsUpTo(S, n) ==
    IF n = 0 THEN {<<>>}
    ELSE LET shorter == SeqsUpTo(S, n - 1)
         IN  shorter \cup {Append(q, c) : q \in {t \in shorter : Len(t) = n - 1}, c \in S}

Scripts == [chunks : SeqsUpTo(Chunks, MaxReads), end : {"eof", "err", "silent"}]
NoScript == [chunks |-> <<>>, end |-> "silent"]

RECURSIVE Concat(_)
Concat(chunks) == IF chunks = <<>> THEN <<>> ELSE Head(chunks) \o Concat(Tail(chunks))

\* format!("{} {} HTTP/1.1\r\nHost: {}\r\nUser-Agent: esp32-rust\r\n", ..), the two
\* body headers if let Some(_) = body, then "Connection: close\r\n\r\n"; one
\* record per line.
Line(name, value, len) == [name |-> name, value |-> value, len |-> len]
Route == "/route"
Host == "host"

BodyLen(body) == IF body = None THEN 0 ELSE Len(body[1])

RequestHeadMutSkipEmptyBody(method, body) ==
    <<Line(as_str(method), Route, 0), Line("Host", Host, 0),
      Line("User-Agent", "esp32-rust", 0)>>
    \o (IF body # None /\ body[1] # <<>>
        THEN <<Line("Content-Length", "", BodyLen(body)),
               Line("Content-Type", "application/json", 0)>>
        ELSE <<>>)
    \o <<Line("Connection", "close", 0), Line("", "", 0)>>
RequestHead(method, body) ==
    <<Line(as_str(method), Route, 0), Line("Host", Host, 0),
      Line("User-Agent", "esp32-rust", 0)>>
    \o (IF body # None
        THEN <<Line("Content-Length", "", BodyLen(body)),
               Line("Content-Type", "application/json", 0)>>
        ELSE <<>>)
    \o <<Line("Connection", "close", 0), Line("", "", 0)>>

NothingSent == [head |-> None, body |-> None, flushed |-> FALSE]
NotEnded == [by |-> "none", at |-> 0]

\* Result<String, &'static str>
Ok(text) == [ok |-> TRUE, text |-> text, tag |-> ""]
Err(tag) == [ok |-> FALSE, text |-> <<>>, tag |-> tag]

\* out.push_str(s)
PushStrMutReplace(out, s) == s
PushStr(out, s) == out \o s

\* if Instant::now() > deadline { break; }
PastDeadline(now, deadline) == now > deadline

\* request, up to socket.open(self.ip, 80).map_err(|_| "open failed")?
request_open(method, body, timeout, openOk) ==
    /\ h_pc = "idle"
    /\ h_req' = Some([method |-> method, body |-> body, timeout |-> timeout])
    /\ h_out' = <<>>
    /\ IF openOk
       THEN /\ h_sock' = "open"
            /\ h_pc' = "send"
            /\ UNCHANGED h_result
       ELSE /\ h_result' = Some(Err("open failed"))
            /\ h_pc' = "done"
            /\ UNCHANGED h_sock
    /\ UNCHANGED <<h_sent, h_script, h_next, h_rx, h_now, h_deadline, h_end>>
    /\ UNCHANGED <<touchVars, buffer, call, halted, progVars, wsVars>>

\* The tag of the first failing step between the head's write and the flush:
\* .map_err(|_| "write failed")?, "body write failed", "flush failed".
SendFailureMutAllFlush(writeOk, hasBody, bodyOk) == "flush failed"
SendFailure(writeOk, hasBody, bodyOk) ==
    IF ~writeOk THEN "write failed"
    ELSE IF hasBody /\ ~bodyOk THEN "body write failed"
    ELSE "flush failed"

\* request, from format!(..) to let deadline = Instant::now() + timeout: the
\* head is written, then the body if there is one, then the socket is
\* flushed; the first failure returns its tag.  `script` is what the peer
\* answers to the request.
request_send(writeOk, bodyOk, flushOk, script) ==
    /\ h_pc = "send"
    /\ LET req == h_req[1]
           hasBody == req.body # None
           bodySent == writeOk /\ hasBody /\ bodyOk
           flushed == writeOk /\ (hasBody => bodyOk) /\ flushOk
       IN  /\ h_sent' = [head |-> IF writeOk THEN Some(RequestHead(req.method, req.body))
                                   ELSE None,
                         body |-> IF bodySent THEN req.body ELSE None,
                         flushed |-> flushed]
           /\ IF flushed
              THEN /\ h_deadline' = Some(h_now + req.timeout)
                   /\ h_script' = script
                   /\ h_pc' = "read"
                   /\ UNCHANGED h_result
              ELSE /\ h_result' = Some(Err(SendFailure(writeOk, hasBody, bodyOk)))
                   /\ h_pc' = "done"
                   /\ UNCHANGED <<h_deadline, h_script>>
    /\ UNCHANGED <<h_req, h_next, h_rx, h_out, h_now, h_end, h_sock>>
    /\ UNCHANGED <<touchVars, buffer, call, halted, progVars, wsVars>>

\* socket.read(&mut temp) has not returned yet and a second passes.
read_wait ==
    /\ h_pc = "read"
    /\ h_now < MaxTime
    /\ h_now' = h_now + 1
    /\ UNCHANGED <<h_pc, h_req, h_sent, h_script, h_next, h_rx, h_out,
                   h_deadline, h_end, h_sock, h_result>>
    /\ UNCHANGED <<touchVars, buffer, call, halted, progVars, wsVars>>

\* socket.disconnect(); let end_deadline = Instant::now() + 5 s
Disconnect(by) ==
    /\ h_end' = [by |-> by, at |-> h_now]
    /\ h_sock' = "disconnected"
    /\ h_pc' = "grace"
    /\ UNCHANGED h_result

\* socket.read returns and the rest of the loop body runs: Ok(0) and Err(_)
\* break; Ok(n) appends the chunk if from_utf8 accepts it, else returns
\* Err("utf8 error"); then the deadline is looked at.
read_return ==
    /\ h_pc = "read"
    /\ IF h_next < Len(h_script.chunks)
       THEN LET chunk == h_script.chunks[h_next + 1] IN
            /\ h_next' = h_next + 1
            /\ h_rx' = Append(h_rx, h_now)
            /\ IF ValidUtf8(chunk)
               THEN /\ h_out' = PushStr(h_out, chunk)
                    /\ IF PastDeadline(h_now, h_deadline[1])
                       THEN Disconnect("deadline")
                       ELSE UNCHANGED <<h_end, h_sock, h_pc, h_result>>
               ELSE /\ h_result' = Some(Err("utf8 error"))
                    /\ h_end' = [by |-> "utf8", at |-> h_now]
                    /\ h_pc' = "done"
                    /\ UNCHANGED <<h_out, h_sock>>
       ELSE /\ h_script.end # "silent"
            /\ Disconnect(h_script.end)
            /\ UNCHANGED <<h_next, h_rx, h_out>>
    /\ UNCHANGED <<h_req, h_sent, h_script, h_now, h_deadline>>
    /\ UNCHANGED <<touchVars, buffer, call, halted, progVars, wsVars>>

\* What request returns after the read loop was left by a break, whichever
\* break it was (Ok(0), Err(_) or the deadline): Ok(out).
LoopResultMutReadError(by, out) == IF by = "err" THEN Err("read failed") ELSE Ok(out)
LoopResult(by, out) == Ok(out)

\* while Instant::now() < end_deadline { socket.work(); }  Ok(out)
\* The stack is serviced until end_deadline, then the call returns.
request_return ==
    /\ h_pc = "grace"
    /\ h_now' = h_end.at + GraceSecs
    /\ h_result' = Some(LoopResult(h_end.by, h_out))
    /\ h_pc' = "done"
    /\ UNCHANGED <<h_req, h_sent, h_script, h_next, h_rx, h_out,
                   h_deadline, h_end, h_sock>>
    /\ UNCHANGED <<touchVars, buffer, call, halted, progVars, wsVars>>

\* ------------------------------------------------------- ws_client.rs

\* What a session buffer (ws_rx, ws_tx, frame_buf) holds is followed by its
\* kind: "zeros", the "upgrade" request, the server's handshake "response",
\* one final "text-frame", the "frames" the framer read, the "payload" it
\* decoded.
Zeros == "zeros"

\* WsClient::new
WsClient_new ==
    [connected |-> FALSE, ws_key |-> None, read_cursor |-> 0,
     ws_rx |-> Zeros, ws_tx |-> Zeros, frame_buf |-> Zeros]

\* The key client_connect draws from the Rng, and the accept value a server
\* derives from it.
Keys == {"k1", "k2"}
AcceptOf(key) == IF key = "k1" THEN "a1" ELSE "a2"

\* The server's handshake response: its status and its accept value.
Responses == [status : {"101", "400"}, accept : {"a1", "a2"}]

\* self.ws.client_accept(&key, &self.ws_rx[..n]).is_ok()
client_acceptMutAnyAccept(key, resp) == resp.status = "101"
client_accept(key, resp) == resp.status = "101" /\ resp.accept = AcceptOf(key)

\* The step of connect that fails first, "" when none does: each step's error
\* is mapped to its tag and returned with `?`.
ConnectFailure(openOk, buildOk, writeOk, readOk, key, resp) ==
    IF ~openOk THEN "open failed"
    ELSE IF ~buildOk THEN "ws connect"
    ELSE IF ~writeOk THEN "ws write"
    ELSE IF ~readOk THEN "ws read"
    ELSE IF ~client_accept(key, resp) THEN "ws accept"
    ELSE ""

\* The socket calls connect has made when it returns.
ConnectIo(openOk, buildOk, writeOk) ==
    <<"open">>
    \o (IF openOk /\ buildOk THEN <<"write_all">> ELSE <<>>)
    \o (IF openOk /\ buildOk /\ writeOk THEN <<"read">> ELSE <<>>)

\* WsClient::connect.  client_connect writes the request for the key into
\* ws_tx, socket.read the response into ws_rx; key and connected are set
\* after client_accept only.
connect(openOk, buildOk, writeOk, readOk, key, resp) ==
    LET failure == ConnectFailure(openOk, buildOk, writeOk, readOk, key, resp)
        built == openOk /\ buildOk
        received == built /\ writeOk /\ readOk
    IN  /\ wsc' = [wsc EXCEPT
                     !.ws_tx = IF built THEN "upgrade" ELSE @,
                     !.ws_rx = IF received THEN "response" ELSE @,
                     !.ws_key = IF failure = "" THEN Some(key) ELSE @,
                     !.connected = IF failure = "" THEN TRUE ELSE @]
        /\ call' = [op |-> "connect",
                    prev |-> [connected |-> wsc.connected, ws_key |-> wsc.ws_key],
                    io |-> ConnectIo(openOk, buildOk, writeOk),
                    steps |-> [open |-> openOk, build |-> built,
                               write |-> built /\ writeOk, read |-> received,
                               accept |-> received /\ resp.status = "101"
                                          /\ resp.accept = AcceptOf(key)],
                    key |-> key, result |-> failure]
        /\ UNCHANGED w_absorbed
        /\ UNCHANGED <<touchVars, buffer, halted, progVars, httpVars>>

\* The message given to poll_send, and the texts of received frames.
Msgs == {None, Some(<<>>), Some(<<"A">>)}
Texts == {<<"A">>, <<"A", "A">>}

\* What framer.read(&mut ws_socket, &mut self.frame_buf) can come back with:
\* Ok(ReadResult::Text(txt)), another ReadResult ("Binary", "Closed"), or an
\* error; whether it read from the socket, and where it left read_cursor.
\* held: how many complete text frames were there to decode when it was
\* called, the returned text being the first of them.
FrameCounts == {0, 1, 2}
FramerResults ==
    {r \in [kind : {"Text", "Binary", "Closed", "Err"}, text : Texts \cup {<<>>},
            cursor : 0..MaxCursor, read : BOOLEAN, held : FrameCounts] :
        /\ (r.kind = "Text") <=> (r.text # <<>>)
        /\ (r.kind = "Text") <=> (r.held > 0)}

\* if !self.connected { return; }
NotConnectedMutNever(w) == FALSE
NotConnected(w) == ~w.connected

\* poll_send: nothing unless connected and given a message; ws.write frames
\* the message into ws_tx as one final text frame (Err: return); the result
\* of socket.write_all is dropped.
PollSendEffect(w, msg, frameOk) ==
    IF NotConnected(w) \/ msg = None \/ ~frameOk
    THEN [w |-> w, io |-> <<>>, frame |-> None]
    ELSE [w |-> [w EXCEPT !.ws_tx = "text-frame"],
          io |-> <<"write_all">>,
          frame |-> Some([opcode |-> "text", fin |-> TRUE, payload |-> msg[1]])]

\* match framer.read(..) { Ok(ReadResult::Text(txt)) => println!(..), Ok(_) => {}, Err(_) => {} }
SurfacedMutAny(res) == Some(res.text)
Surfaced(res) == IF res.kind = "Text" THEN Some(res.text) ELSE None

\* poll_recv: nothing unless connected; a Framer is built over ws_rx,
\* read_cursor, ws_tx and ws, and read once.
PollRecvEffectMutCloseResets(w, res) ==
    IF NotConnected(w)
    THEN [w |-> w, io |-> <<>>, surfaced |-> None, absorbed |-> FALSE]
    ELSE [w |-> [w EXCEPT !.read_cursor = res.cursor,
                          !.ws_rx = IF res.read THEN "frames" ELSE @,
                          !.frame_buf = IF res.kind \in {"Text", "Binary"}
                                        THEN "payload" ELSE @,
                          !.connected = res.kind # "Closed"],
          io |-> IF res.read THEN <<"read">> ELSE <<>>,
          surfaced |-> Surfaced(res),
          absorbed |-> res.kind # "Text"]
PollRecvEffect(w, res) ==
    IF NotConnected(w)
    THEN [w |-> w, io |-> <<>>, surfaced |-> None, absorbed |-> FALSE]
    ELSE [w |-> [w EXCEPT !.read_cursor = res.cursor,
                          !.ws_rx = IF res.read THEN "frames" ELSE @,
                          !.frame_buf = IF res.kind \in {"Text", "Binary"}
                                        THEN "payload" ELSE @],
          io |-> IF res.read THEN <<"read">> ELSE <<>>,
          surfaced |-> Surfaced(res),
          absorbed |-> res.kind # "Text"]

\* WsClient::poll_send
poll_send(msg, frameOk, writeOk) ==
    LET e == PollSendEffect(wsc, msg, frameOk) IN
    /\ wsc' = e.w
    /\ call' = [op |-> "poll_send", was_connected |-> wsc.connected,
                same |-> e.w = wsc, msg |-> msg, frame |-> e.frame, io |-> e.io,
                delivered |-> e.io # <<>> /\ writeOk, surfaced |-> None,
                kind |-> "none", held |-> 0]
    /\ UNCHANGED w_absorbed
    /\ UNCHANGED <<touchVars, buffer, halted, progVars, httpVars>>

\* WsClient::poll_recv
poll_recv(res) ==
    LET e == PollRecvEffect(wsc, res) IN
    /\ wsc' = e.w
    /\ call' = [op |-> "poll_recv", was_connected |-> wsc.connected,
                same |-> e.w = wsc, msg |-> None, frame |-> None, io |-> e.io,
                delivered |-> FALSE, surfaced |-> e.surfaced, kind |-> res.kind,
                held |-> res.held]
    /\ w_absorbed' = (w_absorbed \/ e.absorbed)
    /\ UNCHANGED <<touchVars, buffer, halted, progVars, httpVars>>

\* WsClient::poll: self.poll_send(socket, send); self.poll_recv(socket);
poll(send, frameOk, writeOk, res) ==
    LET e1 == PollSendEffect(wsc, send, frameOk)
        e2 == PollRecvEffect(e1.w, res)
    IN
    /\ wsc' = e2.w
    /\ call' = [op |-> "poll", was_connected |-> wsc.connected,
                same |-> e2.w = wsc, msg |-> send, frame |-> e1.frame,
                io |-> e1.io \o e2.io,
                delivered |-> e1.io # <<>> /\ writeOk, surfaced |-> e2.surfaced,
                kind |-> res.kind, held |-> res.held]
    /\ w_absorbed' = (w_absorbed \/ e2.absorbed)
    /\ UNCHANGED <<touchVars, buffer, halted, progVars, httpVars>>

\* ------------------------------------------------------- specifications

vars == <<last_pos, screen_width, t_last_pos, gi_down, tu_down, call, halted,
          buffer, program, pc, io, bus, bus_rate, attempt, sd_log, net_log, assoc, lease, sock_open,
          h_pc, h_req, h_sent, h_script, h_next, h_rx, h_out, h_now,
          h_deadline, h_end, h_sock, h_result, wsc, w_absorbed>>

Init ==
    /\ last_pos = None
    /\ screen_width \in ScreenWidths
    /\ t_last_pos = None
    /\ gi_down = FALSE
    /\ tu_down = FALSE
    /\ call = NoCall
    /\ halted = FALSE
    /\ buffer = <<>>
    /\ program \in Programs
    /\ pc = EntryOf(program)
    /\ io = "idle"
    /\ bus = [b \in Buses |-> {}]
    /\ bus_rate = [b \in Buses |-> None]
    /\ attempt = 0
    /\ sd_log = <<>>
    /\ net_log = <<>>
    /\ assoc = "disassociated"
    /\ lease = "none"
    /\ sock_open = FALSE
    /\ h_pc = "idle"
    /\ h_req = None
    /\ h_sent = NothingSent
    /\ h_script = NoScript
    /\ h_next = 0
    /\ h_rx = <<>>
    /\ h_out = <<>>
    /\ h_now = 0
    /\ h_deadline = None
    /\ h_end = NotEnded
    /\ h_sock = "closed"
    /\ h_result = None
    /\ wsc = WsClient_new
    /\ w_absorbed = FALSE

\* The same, with the one screen width run_event_loop uses (320).
InitProgram == Init /\ screen_width = ScreenW /\ program = "main"

\* Either binary, from the first line of its run_event_loop.
InitEither == Init /\ screen_width = ScreenW

InitTouch == Init /\ program = "main"

\* The touch translators polled with every sample.
PollGetInput == \E runOk \in BOOLEAN, touched \in BOOLEAN, p \in RawSamples :
    get_input(runOk, touched, p)

PollUpdate == \E runOk \in BOOLEAN, touched \in BOOLEAN, p \in RawSamples,
                 ok1 \in BOOLEAN, ok2 \in BOOLEAN :
    update(runOk, touched, p, ok1, ok2)

NextTouch == PollGetInput \/ PollUpdate

SpecTouch == InitTouch /\ [][NextTouch]_vars

\* The frame sink called with every row, range and producer.
CallProcessLine == \E line \in 0..MaxLine, r \in Ranges, writeOk \in BOOLEAN :
    \E fill \in Fills(RangeLen(r)) :
        process_line(line, r, fill, writeOk)

NextFrame == CallProcessLine

SpecFrame == InitProgram /\ [][NextFrame]_vars

\* The program: run_event_loop from its first line.  The loop's inputs: what
\* the touch controller samples, and the lines and ranges the renderer asks
\* the DrawBuf for (the first and the last column of the 320-pixel window).
ProgSamples == {<<0, 0>>, <<10, 20>>}
ProgLines == {0, ScreenH - 1}
ProgRanges == {[start |-> c, end |-> c + n] : c \in {0, ScreenW - 1}, n \in 0..1}

Next ==
    \/ \E ok \in BOOLEAN : radio_init(ok)
    \/ \E psOk \in BOOLEAN, cfgOk \in BOOLEAN, startOk \in BOOLEAN :
          configure_wifi(psOk, cfgOk, startOk)
    \/ \E ok \in BOOLEAN : scan_wifi(ok)
    \/ \E reqOk \in BOOLEAN : connect_wifi(reqOk)
    \/ \E res \in {"true", "false", "err"} : wait_connected(res)
    \/ \E up \in BOOLEAN : obtain_ip(up)
    \/ \E openOk \in BOOLEAN, sendOk \in BOOLEAN, textOk \in BOOLEAN :
          http_request(openOk, sendOk, textOk)
    \/ create_spi
    \/ BusAcquire
    \/ BusRelease
    \/ \E ok \in BOOLEAN : DrawBuf_new(ok)
    \/ \E ok \in BOOLEAN : Touch_new(ok)
    \/ \E mountOk \in BOOLEAN, rootOk \in BOOLEAN, fileOk \in BOOLEAN,
          readOk \in BOOLEAN : init_sd_card(mountOk, rootOk, fileOk, readOk)
    \/ \E runOk \in BOOLEAN, touched \in BOOLEAN, p \in ProgSamples,
          ok1 \in BOOLEAN, ok2 \in BOOLEAN : loop_update(runOk, touched, p, ok1, ok2)
    \/ \E line \in ProgLines, r \in ProgRanges, writeOk \in BOOLEAN :
          \E fill \in Fills(RangeLen(r)) : loop_process_line(line, r, fill, writeOk)
    \/ loop_redraw

Spec == InitEither /\ [][Next]_vars

\* One HttpClient::request against a scripted peer.
NextHttp ==
    \/ \E method \in Methods, body \in Bodies, timeout \in Timeouts, openOk \in BOOLEAN :
          request_open(method, body, timeout, openOk)
    \/ \E writeOk \in BOOLEAN, bodyOk \in BOOLEAN, flushOk \in BOOLEAN,
          script \in Scripts : request_send(writeOk, bodyOk, flushOk, script)
    \/ read_wait
    \/ read_return
    \/ request_return

SpecHttp == InitProgram /\ [][NextHttp]_vars

\* One WsClient, its methods called in any order with any outcome of the
\* socket and of the websocket library.  An outcome is drawn only for the
\* steps a call gets to: the steps after a failing one are not made.
ConnectInputs ==
    {in \in [open : BOOLEAN, build : BOOLEAN, write : BOOLEAN, read : BOOLEAN,
             key : Keys, resp : Responses] :
        /\ ~in.open => in.build
        /\ ~(in.open /\ in.build) => in.write /\ in.key = "k1"
        /\ ~(in.open /\ in.build /\ in.write) => in.read
        /\ ~(in.open /\ in.build /\ in.write /\ in.read) =>
              in.resp = [status |-> "101", accept |-> "a1"]}
SendInputs ==
    {in \in [msg : Msgs, frame : BOOLEAN, write : BOOLEAN] :
        /\ in.msg = None => in.frame
        /\ ~(in.msg # None /\ in.frame) => in.write}
NextWs ==
    \/ \E in \in ConnectInputs :
          connect(in.open, in.build, in.write, in.read, in.key, in.resp)
    \/ \E in \in SendInputs : poll_send(in.msg, in.frame, in.write)
    \/ \E res \in FramerResults : poll_recv(res)
    \/ \E in \in SendInputs, res \in FramerResults :
          poll(in.msg, in.frame, in.write, res)

SpecWs == InitProgram /\ [][NextWs]_vars

\* ------------------------------------------------------- touch claims

IsPoll(c) == c.op \in {"get_input", "update"}

\* The event of a poll: get_input's response, or the first window event
\* update dispatched (NoInput when it dispatched none).
PollKind(c) ==
    IF c.op = "get_input" THEN c.response.kind
    ELSE IF c.dispatched = <<>> THEN "NoInput"
    ELSE c.dispatched[1].kind

\* The coordinate the event of a poll carries.
PollPos(c) ==
    IF c.op = "get_input" THEN c.response.pos
    ELSE IF c.dispatched = <<>> THEN None
    ELSE c.dispatched[1].pos

\* C1: the event of every poll that took a sample is decided by (touched,
\* stored point before the poll) alone: Pressed iff nothing stored and touched,
\* Released iff stored and not touched, Moved iff stored and touched (whatever
\* the new point is), NoInput iff nothing stored and not touched.
C1_EventByTouchedAndStored ==
    (IsPoll(call) /\ call.ok) =>
        LET k == PollKind(call)
            stored == call.prev # None
        IN  /\ (k = "Pressed")  <=> (~stored /\ call.touched)
            /\ (k = "Released") <=> (stored /\ ~call.touched)
            /\ (k = "Moved")    <=> (stored /\ call.touched)
            /\ (k = "NoInput")  <=> (~stored /\ ~call.touched)

\* C1 witness: get_input answered Moved for a point that equals the stored
\* one in x and differs in y (the guard of the first match arm is false).
C1_Witness ==
    /\ call.op = "get_input" /\ call.ok /\ call.touched
    /\ call.prev # None
    /\ call.response.kind = "Moved"
    /\ call.prev[1][1] = call.response.pos[1][1]
    /\ call.prev[1][2] # call.response.pos[1][2]

\* C2: events follow Pressed, Moved*, Released, idle: a Pressed is only
\* emitted when no Pressed is outstanding, and a Moved or a Released only
\* when a Pressed was emitted since the last Released.  call.down is the
\* history of the events emitted before this poll.
C2_PressMoveReleaseOrder ==
    (IsPoll(call) /\ call.ok) =>
        LET k == PollKind(call)
        IN  /\ (k = "Pressed") => ~call.down
            /\ (k \in {"Moved", "Released"}) => call.down
            /\ (k = "NoInput") => ~call.down

\* C2 witness: update dispatched the Released that closes an outstanding
\* Pressed.
C2_Witness ==
    /\ call.op = "update" /\ call.ok
    /\ PollKind(call) = "Released"
    /\ call.down /\ ~tu_down

\* What the specification's Released+Exited output is for each translator:
\* get_input answers Released (TouchInputResponse has no Exited), update
\* dispatches PointerReleased and then PointerExited.
ReleasedThenExited(c) ==
    IF c.op = "get_input" THEN c.response.kind = "Released"
    ELSE /\ Len(c.dispatched) = 2
         /\ c.dispatched[1].kind = "Released"
         /\ c.dispatched[2].kind = "Exited"

StoredAfter(c) == IF c.op = "get_input" THEN last_pos ELSE t_last_pos

C4_RemapInjective ==
    (IsPoll(call) /\ call.ok /\ call.touched) =>
        /\ PollKind(call) \in {"Pressed", "Moved"}
        /\ PollPos(call) =
              Some(<<call.width - 2 * call.raw[1][1], 2 * call.raw[1][2]>>)
        /\ \A q \in RawSamples :
              (    <<call.width - 2 * q[1], 2 * q[2]>> = PollPos(call)[1]
                \/ Remap(call.width, q) = PollPos(call)[1] )
              => q = call.raw[1]
        /\ (call.width = 320 /\ call.raw = Some(<<10, 20>>))
              => PollPos(call) = Some(<<300, 40>>)

\* C4 witness: get_input, width 320, raw sample (10,20), event at (300,40).
C4_Witness ==
    /\ call.op = "get_input" /\ call.ok /\ call.touched
    /\ call.width = 320
    /\ call.raw = Some(<<10, 20>>)
    /\ call.response.kind \in {"Pressed", "Moved"}
    /\ call.response.pos = Some(<<300, 40>>)

\* The spec's scenario: width 320, raw sample (5,5).
ScenarioRaw == <<5, 5>>

\* C22 as stated: Released carries the stored point, and in the scenario the
\* touched polls and the Released that follows carry (295,10).
C22_Original ==
    (call.op = "get_input" /\ call.ok /\ call.width = 320) =>
        /\ (call.touched /\ call.raw = Some(ScenarioRaw)) =>
              call.response.pos = Some(<<295, 10>>)
        /\ (~call.touched /\ call.prev = Some(Remap(320, ScenarioRaw))) =>
              call.response = [kind |-> "Released", pos |-> Some(<<295, 10>>)]

C22_Step ==
    /\ last_pos' # last_pos =>
          /\ call'.op = "get_input" /\ call'.ok
          /\ last_pos' = IF call'.touched
                         THEN Some(<<screen_width - 2 * call'.raw[1][1],
                                     2 * call'.raw[1][2]>>)
                         ELSE None
    /\ (call'.op = "get_input" /\ call'.ok) =>
          /\ call'.prev = last_pos
          /\ call'.touched =>
                last_pos' = Some(<<screen_width - 2 * call'.raw[1][1],
                                   2 * call'.raw[1][2]>>)
          /\ (~call'.touched /\ last_pos # None) =>
                /\ call'.response = [kind |-> "Released", pos |-> last_pos]
                /\ last_pos' = None
          /\ (call'.touched /\ call'.raw = Some(ScenarioRaw) /\ screen_width = 320) =>
                call'.response.pos = Some(<<310, 10>>)
          /\ (~call'.touched /\ last_pos = Some(Remap(320, ScenarioRaw))) =>
                call'.response = [kind |-> "Released", pos |-> Some(<<310, 10>>)]

\* C22 (amended): the stored point changes only in a poll that took a sample,
\* to the remapped coordinate of a touched sample or to nothing; a Released
\* carries the point stored before the poll, so the remapped coordinate of the
\* most recent touched poll; with width 320 and raw (5,5) the Pressed, the
\* Moved and the Released carry (310,10).
C22_ReleasedCarriesStored == [][C22_Step]_vars

\* The scenario's last poll: Released at (310,10) after touched polls at (5,5).
C22_Witness ==
    /\ call.op = "get_input" /\ call.ok /\ ~call.touched
    /\ call.width = 320
    /\ call.prev = Some(<<310, 10>>)
    /\ call.response = [kind |-> "Released", pos |-> Some(<<310, 10>>)]
    /\ last_pos = None

\* ------------------------------------------------------- bus claims (Spec)

Holders(b) == bus[b]

\* C5: at any moment at most one device holds a bus, and a bus is held only
\* inside the open transaction of the operation that is running, by that
\* operation's device on that device's bus: once the transaction has ended
\* (and so whenever an operation returns) no bus is held.
C5_ExclusiveAndReleased ==
    \A b \in Buses :
        /\ Cardinality(Holders(b)) <= 1
        /\ Holders(b) # {} =>
              /\ io = "open"
              /\ pc \in IoOps
              /\ Holders(b) = {DevOf(pc)}
              /\ b = BusOf(DevOf(pc))

\* The touch controller is inside a transaction on the fast bus, during a
\* loop iteration after the display has used the same bus.
C5_Witness ==
    /\ pc = "update"
    /\ io = "open"
    /\ Holders("fast") = {"touch"}
    /\ Holders("slow") = {}
    /\ call.op = "request_redraw"

C8_Original ==
    (call.op = "process_line" /\ call.result = "Ok") =>
        /\ WindowRows(call.window[1]) = {call.line}
        /\ WindowCols(call.window[1]) = call.range.start..(call.range.end - 1)
        /\ Len(call.pixels) = call.range.end - call.range.start
        /\ \A i \in 1..Len(call.pixels) : call.pixels[i] = call.produced[i]

\* What the code does instead: the window's last column is range.end itself,
\* one column more than the pixels streamed.
C8_WindowOneColumnWider ==
    (call.op = "process_line" /\ call.result = "Ok") =>
        /\ WindowRows(call.window[1]) = {call.line}
        /\ WindowCols(call.window[1]) = call.range.start..call.range.end
        /\ Cardinality(WindowCols(call.window[1])) = Len(call.pixels) + 1
        /\ call.pixels = call.produced

\* C31 as stated: a process_line whose range does not fit the 320-entry line
\* buffer aborts with no window set and no pixel streamed, and the window of
\* one whose range fits covers no column past 319 (nor a row past 239).
C31_Original ==
    call.op = "process_line" =>
        /\ ~SliceOk(call.range) =>
              call.result = "panic" /\ call.window = None /\ call.pixels = <<>>
        /\ call.window # None =>
              WindowCols(call.window[1]) \subseteq 0..(ScreenW - 1)

\* ------------------------------------------------------- http claims (SpecHttp)

\* The request was sent and the call has returned after a read loop in which
\* every read returned by the deadline, the last one finding that the peer
\* had closed or, before that, a chunk it rejects.
AnsweredInTime ==
    /\ h_pc = "done"
    /\ h_sent.flushed
    /\ h_script.end = "eof"
    /\ h_end.at <= h_deadline[1]

AllChunksValid == \A i \in 1..Len(h_script.chunks) : ValidUtf8(h_script.chunks[i])

\* C9 as written: for every script of chunks followed by end-of-stream, all
\* delivered before the deadline, request returns Ok with the concatenation
\* of the chunks in arrival order.
C9_Original ==
    AnsweredInTime => h_result = Some(Ok(Concat(h_script.chunks)))

\* C9: for every script of chunks each of which is valid UTF-8 by itself,
\* followed by end-of-stream, all delivered by the deadline, request returns
\* Ok with the concatenation of the chunks in arrival order; with a chunk that
\* is not valid by itself it returns Err("utf8 error") instead.
C9_ConcatOfValidChunks ==
    AnsweredInTime =>
        h_result = IF AllChunksValid THEN Some(Ok(Concat(h_script.chunks)))
                   ELSE Some(Err("utf8 error"))

\* Two chunks, the second a two-byte character, then end-of-stream.
C9_Witness ==
    /\ AnsweredInTime
    /\ h_script.chunks = << <<"A">>, <<"L", "T">> >>
    /\ h_next = 2
    /\ h_result = Some(Ok(<<"A", "L", "T">>))

\* C10 as written: with a peer that never closes, the read loop has stopped
\* by the deadline (give or take the second in which the deadline is polled),
\* also while a read has not returned, and the call then returns Ok with the
\* text accumulated so far.
C10_Original ==
    /\ (h_pc = "read" /\ h_script.end = "silent") => h_now <= h_deadline[1] + 1
    /\ (h_pc = "done" /\ h_end.by = "deadline") => h_result = Some(Ok(h_out))

\* The chunks of the script, among the first n, whose read returned by the
\* deadline, in arrival order.
RECURSIVE InTimeText(_)
InTimeText(n) ==
    IF n = 0 THEN <<>>
    ELSE InTimeText(n - 1)
         \o (IF h_rx[n] <= h_deadline[1] THEN h_script.chunks[n] ELSE <<>>)

\* C11 as written: the text request returns is made of the chunks whose read
\* returned by the deadline only; a chunk read after the deadline is not in it.
C11_Original ==
    (h_pc = "done" /\ h_result # None /\ h_result[1].ok) =>
        h_result[1].text = InTimeText(h_next)

\* What the code does instead: every chunk read is in the text, at most the
\* last of them read after the deadline.
C11_OneLateChunkAppended ==
    (h_pc = "done" /\ h_result # None /\ h_result[1].ok) =>
        /\ h_result[1].text = Concat(SubSeq(h_script.chunks, 1, h_next))
        /\ \A i \in 1..(h_next - 1) : h_rx[i] <= h_deadline[1]

\* C12 as written: whatever ended the read phase (end-of-stream, deadline,
\* read error, a chunk that is not text), when the call has returned the
\* socket is disconnected and the stack was serviced for the grace window.
C12_Original ==
    (h_pc = "done" /\ h_end.by # "none") =>
        /\ h_sock = "disconnected"
        /\ h_now = h_end.at + GraceSecs

\* What the code does instead: only the chunk that is not text skips the
\* disconnect and the grace window.
C12_TeardownUnlessDecodeError ==
    (h_pc = "done" /\ h_end.by # "none") =>
        IF h_end.by = "utf8"
        THEN h_sock = "open" /\ h_now = h_end.at
        ELSE h_sock = "disconnected" /\ h_now = h_end.at + GraceSecs

\* A chunk that is text by itself: ASCII, or a whole two-byte character.
IsText(chunk) == chunk \in {<<"A">>, <<"L", "T">>}

\* C13: once a chunk that is not text has been read, the call has returned
\* Err("utf8 error") with no text, that chunk is the last one read, and the
\* text accumulated before it is not returned.
C13_DecodeErrorStops ==
    \A i \in 1..h_next :
        ~IsText(h_script.chunks[i]) =>
            /\ i = h_next
            /\ h_pc = "done"
            /\ h_end.by = "utf8"
            /\ h_result = Some(Err("utf8 error"))
            /\ h_result[1].text = <<>>

\* A text chunk, then the lead byte of a character alone: the call has
\* returned the error although one chunk had been accumulated.
C13_Witness ==
    /\ h_script.chunks = << <<"A">>, <<"L">> >>
    /\ h_next = 2
    /\ h_out = <<"A">>
    /\ h_result = Some(Err("utf8 error"))

\* ------------------------------------------------------- websocket claims (SpecWs)

\* C14: connect returns Ok and sets connected (storing the key) if and only
\* if open, building the request, write, read and the validation of the
\* accept value against the key all succeed; after a failing step it returns
\* the error and connected and the stored key are what they were before the
\* call (still false and empty on a fresh client).
C14_ConnectedIffAllSteps ==
    call.op = "connect" =>
        LET all == /\ call.steps.open /\ call.steps.build /\ call.steps.write
                   /\ call.steps.read /\ call.steps.accept
        IN  /\ (call.result = "") <=> all
            /\ all => wsc.connected /\ wsc.ws_key = Some(call.key)
            /\ ~all => /\ wsc.connected = call.prev.connected
                       /\ wsc.ws_key = call.prev.ws_key
                       /\ call.result \in {"open failed", "ws connect", "ws write",
                                           "ws read", "ws accept"}
            /\ (~all /\ ~call.prev.connected /\ call.prev.ws_key = None) =>
                   ~wsc.connected /\ wsc.ws_key = None

\* A fresh client whose server answered 101 with the accept value of another
\* key: every step but the validation succeeded, and it is not connected.
C14_Witness ==
    /\ call.op = "connect"
    /\ call.prev = [connected |-> FALSE, ws_key |-> None]
    /\ call.steps.read /\ ~call.steps.accept
    /\ wsc.ws_rx = "response"
    /\ call.result = "ws accept"
    /\ ~wsc.connected

IsWsPoll(c) == c.op \in {"poll_send", "poll_recv", "poll"}

\* C15: a poll_send, poll_recv or poll made while the session is not
\* connected writes nothing to the socket, reads nothing from it, surfaces
\* nothing and leaves the read cursor and every buffer of the session as they
\* were.
C15_NotConnectedTouchesNothing ==
    (IsWsPoll(call) /\ ~call.was_connected) =>
        /\ call.io = <<>>
        /\ call.frame = None
        /\ ~call.delivered
        /\ call.surfaced = None
        /\ call.same

\* A poll with a message and a waiting text frame, on a client whose
\* handshake was refused (its buffers hold the request and the response).
C15_Witness ==
    /\ call.op = "poll"
    /\ ~call.was_connected
    /\ wsc.ws_tx = "upgrade"
    /\ wsc.ws_rx = "response"
    /\ call.msg = Some(<<"A">>)
    /\ call.kind = "Text"

\* C17: a connected poll_recv (or poll) whose framer read gives anything but
\* a text (another frame type, a closed stream, an error) surfaces nothing,
\* leaves the session connected and does not abort; and a text the framer
\* gives is surfaced, also after such frames were absorbed.
C17_NonTextAbsorbed ==
    (call.op \in {"poll_recv", "poll"} /\ call.was_connected) =>
        /\ wsc.connected
        /\ ~halted
        /\ call.kind # "Text" => call.surfaced = None /\ w_absorbed
        /\ call.kind = "Text" => call.surfaced # None /\ call.surfaced[1] \in Texts

\* A text is surfaced by a poll_recv made after the session had absorbed a
\* frame that was not a text.
C17_Witness ==
    /\ call.op = "poll_recv"
    /\ call.was_connected
    /\ w_absorbed
    /\ call.kind = "Text"
    /\ call.surfaced = Some(<<"A", "A">>)

\* ------------------------------------------------------- program claims (Spec)

AfterSdCard == pc \in {"update", "draw"}

\* C18: init_sd_card makes at most 5 mount attempts and then returns,
\* without abort: while it runs every attempt so far has failed and fewer
\* than 5 were made; once it has returned it has made exactly 5 attempts when
\* all failed, and exactly k when the k-th was the first to succeed.
C18_SdAttempts ==
    /\ Len(sd_log) = attempt
    /\ attempt <= MaxAttempts
    /\ pc = "init_sd_card" =>
          /\ attempt < MaxAttempts
          /\ \A i \in 1..attempt : ~sd_log[i]
    /\ AfterSdCard =>
          /\ attempt >= 1
          /\ \A i \in 1..(attempt - 1) : ~sd_log[i]
          /\ sd_log[attempt] \/ attempt = MaxAttempts
    /\ call.op = "open_volume" => ~halted

\* All five attempts failed and the routine has just returned to the loop.
C18_Witness ==
    /\ pc = "update"
    /\ call.op = "open_volume"
    /\ attempt = MaxAttempts
    /\ \A i \in 1..MaxAttempts : ~sd_log[i]
    /\ ~halted

\* C19: the socket is opened only after the association wait has ended with
\* the station associated and the lease wait has ended with an address bound:
\* no state with an opened socket, and no http_request step, lies before them.
C19_OpenAfterAssociatedAndBound ==
    /\ sock_open => assoc = "associated" /\ lease = "bound"
    /\ call.op = "http_request" => assoc = "associated" /\ lease = "bound"
    /\ pc = "http_request" => assoc = "associated" /\ lease = "bound"

\* The HTTP exchange has opened its socket.
C19_Witness ==
    /\ call.op = "http_request"
    /\ call.opened
    /\ sock_open
    /\ assoc = "associated"
    /\ lease = "bound"

NetOrder == <<"set_config", "start", "scan", "connect", "is_connected", "work">>

NetDone == pc \notin {"radio_init", "configure_wifi", "scan_wifi", "connect_wifi",
                      "wait_connected", "obtain_ip"}

\* C20: the bring-up steps start in the order set_config, start, scan,
\* connect, the is_connected polling, the work polling; none starts twice
\* (the history is a prefix of that order), each polling loop is left only
\* on its condition, and once bring-up is over in src/main.rs every step has
\* run.
C20_BringUpInOrderOnce ==
    /\ Len(net_log) <= Len(NetOrder)
    /\ net_log = SubSeq(NetOrder, 1, Len(net_log))
    /\ pc = "obtain_ip" => assoc = "associated"
    /\ program = "main" /\ NetDone =>
          net_log = NetOrder /\ assoc = "associated" /\ lease = "bound"

\* Bring-up has just ended: the last housekeeping step found the interface up.
C20_Witness ==
    /\ call.op = "work"
    /\ call.iface_up
    /\ pc = "http_request"
    /\ net_log = NetOrder

LoopPcs == {"update", "draw"}

\* C21 as stated: whenever the top-level loop runs, network bring-up and
\* storage bring-up have both been run, once each.
C21_Original ==
    pc \in LoopPcs =>
        /\ net_log = NetOrder
        /\ attempt \in 1..MaxAttempts

C21_Step ==
    /\ pc \notin LoopPcs /\ pc' \in LoopPcs =>
          /\ pc = "init_sd_card" /\ pc' = "update"
          /\ attempt' \in 1..MaxAttempts
          /\ program = "main" => net_log = NetOrder
          /\ program = "bin" => net_log = <<>>
    /\ pc \in LoopPcs =>
          /\ pc' \in LoopPcs
          /\ UNCHANGED <<attempt, sd_log, net_log, assoc, lease, sock_open>>
    /\ pc = "update" /\ pc' # pc => pc' = "draw" /\ call'.op = "update"
    /\ pc = "draw" /\ pc' # pc => pc' = "update" /\ call'.op = "request_redraw"
    /\ pc = "draw" /\ pc' = pc /\ call' # call => call'.op = "process_line"
    /\ halted => pc' = pc /\ call' = call

\* C21 (amended): storage bring-up runs once, before the first iteration, in
\* both binaries; network bring-up runs once before it in src/main.rs and not
\* at all in src/bin/main.rs; the loop is entered from init_sd_card only, an
\* iteration is one touch update, then the frame's lines, then
\* request_redraw, and no step leaves the loop or runs a bring-up step again.
C21_BringUpThenLoop == [][C21_Step]_vars

\* src/main.rs has finished an iteration and is at the top of the loop again.
C21_Witness ==
    /\ program = "main"
    /\ pc = "update"
    /\ call.op = "request_redraw"
    /\ net_log = NetOrder
    /\ attempt \in 1..MaxAttempts
    /\ ~halted

\* C28: a mount attempt that succeeded is the last one: whatever the root
\* directory, the file and the read did afterwards, init_sd_card has returned
\* to run_event_loop without abort, and no attempt follows a successful one.
C28_NoRetryAfterMount ==
    /\ \A i \in 1..(Len(sd_log) - 1) : ~sd_log[i]
    /\ (sd_log # <<>> /\ sd_log[Len(sd_log)]) => AfterSdCard
    /\ (call.op = "open_volume" /\ call.mounted) =>
          /\ pc = "update"
          /\ ~halted
          /\ attempt = call.attempt
          /\ sd_log[attempt]

\* The second attempt mounted the volume, the root directory could not be
\* opened, and the routine has returned.
C28_Witness ==
    /\ call.op = "open_volume"
    /\ call.attempt = 2
    /\ call.mounted /\ ~call.root
    /\ pc = "update"
    /\ ~halted

\* C29 as stated: the program has stopped once the association request has
\* failed or the status poll has reported an error, and then it is at
\* neither the lease wait, the HTTP exchange nor the loop.
C29_Original ==
    /\ (call.op = "connect" /\ ~call.ok) => halted
    /\ (call.op = "is_connected" /\ call.res = "err") => halted
    /\ (net_log # <<>> /\ net_log[Len(net_log)] \in {"connect", "is_connected"}
        /\ assoc = "disassociated") =>
          /\ halted
          /\ pc \notin {"obtain_ip", "http_request"} \cup LoopPcs

C30_Step ==
    /\ (pc = "wait_connected" /\ pc' # pc) =>
          pc' = "obtain_ip" /\ call'.op = "is_connected" /\ call'.res = "true"
    /\ (pc = "wait_connected" /\ call'.op = "is_connected" /\ call'.res = "false") =>
          pc' = "wait_connected" /\ ~halted'
    /\ (pc = "obtain_ip" /\ pc' # pc) =>
          pc' = "http_request" /\ call'.op = "work" /\ call'.iface_up
    /\ (pc = "obtain_ip" /\ call'.op = "work" /\ ~call'.iface_up) =>
          pc' = "obtain_ip" /\ ~halted'
    /\ (program = "main" /\ call'.op \in {"update", "process_line"}) =>
          assoc = "associated" /\ lease = "bound"

\* C30: in src/main.rs the association wait is left only by a status poll
\* that answers true and the lease wait only by a housekeeping step that finds
\* the interface up; a poll that answers false, or finds the interface down,
\* leaves the program in the same wait, running; and no touch poll and no
\* frame line happens before both waits have been left.
C30_WaitsHaveNoOtherExit == [][C30_Step]_vars

\* The association wait has polled, got false, and is still waiting.
C30_Witness ==
    /\ pc = "wait_connected"
    /\ call.op = "is_connected"
    /\ call.res = "false"
    /\ assoc # "associated"
    /\ ~halted

\* ------------------------------------------------------- request claims (SpecHttp)

\* C23: what request has written is, in order, the request line with the
\* verb and the path, Host, the fixed User-Agent, Content-Length (the body's
\* length) and Content-Type exactly when a body was supplied (an empty one
\* too, with length 0), Connection: close, the blank line, and then the body
\* exactly when one was supplied; no read starts before the flush.
C23_RequestLayout ==
    /\ h_sent.head # None =>
          LET req  == h_req[1]
              hd   == h_sent.head[1]
              n    == Len(hd)
              verb == IF req.method = "Get" THEN "GET" ELSE "POST"
          IN  /\ n = IF req.body = None THEN 5 ELSE 7
              /\ hd[1] = [name |-> verb, value |-> Route, len |-> 0]
              /\ hd[2] = [name |-> "Host", value |-> Host, len |-> 0]
              /\ hd[3] = [name |-> "User-Agent", value |-> "esp32-rust", len |-> 0]
              /\ req.body # None =>
                    /\ hd[4] = [name |-> "Content-Length", value |-> "",
                                len |-> Len(req.body[1])]
                    /\ hd[5] = [name |-> "Content-Type",
                                value |-> "application/json", len |-> 0]
              /\ hd[n - 1] = [name |-> "Connection", value |-> "close", len |-> 0]
              /\ hd[n] = [name |-> "", value |-> "", len |-> 0]
    /\ h_sent.body # None => h_sent.head # None /\ h_sent.body = h_req[1].body
    /\ h_sent.flushed => h_sent.head # None /\ h_sent.body = h_req[1].body
    /\ (h_pc = "read" \/ h_deadline # None \/ h_next > 0) => h_sent.flushed

\* A request with an empty body has been written and flushed and its first
\* read is pending: Content-Length is 0.
C23_Witness ==
    /\ h_pc = "read"
    /\ h_req[1].body = Some(<<>>)
    /\ h_sent.flushed
    /\ h_sent.head[1][4] = [name |-> "Content-Length", value |-> "", len |-> 0]
    /\ h_sent.body = Some(<<>>)

\* The phase a returned tag names.
PhaseOf(tag) ==
    IF tag = "open failed" THEN "open"
    ELSE IF tag \in {"write failed", "body write failed"} THEN "write"
    ELSE IF tag = "flush failed" THEN "flush"
    ELSE IF tag = "utf8 error" THEN "decode"
    ELSE "none"

NothingRead == h_next = 0 /\ h_rx = <<>> /\ h_deadline = None /\ h_out = <<>>

\* C24: an error that request returns names the phase that failed (open,
\* write, flush or decode) and nothing of a later phase was done: after an
\* open failure nothing was written, after a write failure (of the head or of
\* the body) nothing was flushed, after a flush failure nothing was read; a
\* decode error comes after a flushed request, from the last chunk read.
C24_ErrorNamesPhase ==
    (h_result # None /\ ~h_result[1].ok) =>
        LET phase == PhaseOf(h_result[1].tag)
            req   == h_req[1]
        IN  /\ phase \in {"open", "write", "flush", "decode"}
            /\ h_result[1].text = <<>>
            /\ phase = "open" =>
                  h_sock = "closed" /\ h_sent = NothingSent /\ NothingRead
            /\ phase = "write" =>
                  /\ h_sock = "open"
                  /\ h_sent.body = None /\ ~h_sent.flushed
                  /\ h_sent.head = None \/ req.body # None
                  /\ NothingRead
            /\ phase = "flush" =>
                  /\ h_sock = "open"
                  /\ h_sent.head # None /\ h_sent.body = req.body
                  /\ ~h_sent.flushed
                  /\ NothingRead
            /\ phase = "decode" =>
                  /\ h_sent.flushed
                  /\ h_next >= 1
                  /\ ~IsText(h_script.chunks[h_next])

\* The body's write failed after the head was written: the error names the
\* write phase and nothing was flushed or read.
C24_Witness ==
    /\ h_result = Some(Err("body write failed"))
    /\ h_sent.head # None
    /\ h_sent.body = None
    /\ ~h_sent.flushed
    /\ NothingRead

\* C32: a read that fails ends the exchange the way end-of-stream does: the
\* socket is disconnected, and when the call has returned the grace window has
\* been served and the result is Ok with all the text read before the failure,
\* a value that carries no trace of the failure.
C32_ReadErrorLooksLikeClose ==
    h_end.by = "err" =>
        /\ h_sock = "disconnected"
        /\ h_pc \in {"grace", "done"}
        /\ h_next = Len(h_script.chunks)
        /\ h_out = Concat(h_script.chunks)
        /\ h_pc = "grace" => h_result = None
        /\ h_pc = "done" =>
              /\ h_now = h_end.at + GraceSecs
              /\ h_result = Some([ok |-> TRUE, text |-> Concat(h_script.chunks),
                                  tag |-> ""])

\* A read failed after one chunk of text and the call has returned Ok with it.
C32_Witness ==
    /\ h_pc = "done"
    /\ h_end.by = "err"
    /\ h_script.chunks = <<<<"A">>>>
    /\ h_result = Some(Ok(<<"A">>))
    /\ h_sock = "disconnected"

\* ------------------------------------------------------- session claims (SpecWs)

IndexIn(seq, x) == IF \E i \in 1..Len(seq) : seq[i] = x
                   THEN CHOOSE i \in 1..Len(seq) : seq[i] = x
                   ELSE 0

\* C25 as stated: connect's socket calls are open, write, flush, read in this
\* order, so that a connect which read the response flushed the request
\* before; the key is built before the write, and the accept value is
\* validated and the session marked connected after the read.
C25_Original ==
    call.op = "connect" =>
        LET o == IndexIn(call.io, "open")
            w == IndexIn(call.io, "write_all")
            f == IndexIn(call.io, "flush")
            r == IndexIn(call.io, "read")
        IN  /\ o = 1
            /\ w > 0 => call.steps.build /\ o < w
            /\ r > 0 => w > 0 /\ w < f /\ f < r
            /\ call.steps.accept => r > 0
            /\ (wsc.connected /\ ~call.prev.connected) => call.steps.accept

SurfacedCount(c) == IF c.surfaced = None THEN 0 ELSE 1

\* C26 as stated: a connected poll that found k complete text frames to decode
\* surfaced all k of them.
C26_Original ==
    (IsWsPoll(call) /\ call.op # "poll_send" /\ call.was_connected) =>
        SurfacedCount(call) = call.held

\* C27 as stated: a connected poll_send (alone or inside poll) that was given
\* a message framed it as one final text frame with the whole message as
\* payload and wrote every byte of the frame; poll_send returns nothing, so
\* the caller learns of no failure and each of them must have succeeded.
C27_Original ==
    (call.op \in {"poll_send", "poll"} /\ call.was_connected /\ call.msg # None) =>
        /\ call.frame = Some([opcode |-> "text", fin |-> TRUE,
                              payload |-> call.msg[1]])
        /\ call.io # <<>> /\ call.io[1] = "write_all"
        /\ call.delivered

C33_Step ==
    /\ wsc.connected => wsc'.connected
    /\ w_absorbed' => wsc'.connected
    /\ (wsc.connected /\ IsWsPoll(call')) =>
          /\ call'.was_connected
          /\ call'.op \in {"poll_recv", "poll"} =>
                call'.kind \in {"Text", "Binary", "Closed", "Err"}
          /\ (call'.op \in {"poll_send", "poll"} /\ call'.frame # None) =>
                call'.io # <<>> /\ call'.io[1] = "write_all"

\* C33: no step takes a connected session back to not connected, whatever the
\* framer returns (a close, an error) and whether the socket's write succeeds
\* or not; every poll made afterwards passes the connected guard: its receive
\* half calls the framer and its send half writes the frame it built.
C33_ConnectedNeverReset == [][C33_Step]_vars

\* One poll on a connected session whose write failed and whose read met the
\* peer's close: the session is still connected.
C33_Witness ==
    /\ call.op = "poll"
    /\ call.was_connected
    /\ call.msg # None /\ call.frame # None /\ ~call.delivered
    /\ call.kind = "Closed"
    /\ call.io = <<"write_all", "read">>
    /\ wsc.connected

====
